---- MODULE Spec2Model ----
(***************************************************************************)
(* Model of opennmt/training.py: Trainer.__call__, the gradient            *)
(* accumulation training loop, with its collaborators (model, optimizer,   *)
(* checkpoint, evaluator, dataset) reduced to the calls the loop makes on  *)
(* them.  Every call on a collaborator is appended to `calls`, in order.   *)
(***************************************************************************)
EXTENDS Integers, Sequences, FiniteSets

\* ---------------------------------------------------------------- bounds
MaxAccum == 3
MaxStepLimit == 3
MaxCadence == 2
MaxIterations0 == 1
MaxBatches == 6
NumParams == 2
NumReplicas == 2
MaxDecayStep == 3
MaxWarmup == 2

\* Python's None (max_step=None, save_steps=None, eval_steps=None).
None == -1
\* A local name that was never assigned (`step` before the first loop pass).
Unbound == -2

VARIABLES
  pc,               \* position in Trainer.__call__
  result,           \* "running" | "returned" | "NameError"
  max_step, accum_steps, report_steps, save_steps, evaluator, eval_steps,
  dataset,          \* the finite sequence of batches the dataset yields
  iterations,       \* self._optimizer.iterations
  iterations0,      \* value of the counter when __call__ was invoked
  gradients,        \* the accumulator list built at lines 64-66
  i,                \* enumerate index of the batch drawn last (-1: none yet)
  num_words,        \* word counts of the batch drawn last
  accum_num_words,  \* defaultdict(int) of running word counts
  last_step, step,  \* locals of the loop
  calls,            \* calls made on the collaborators, in order
  replica_pos,      \* per replica: accumulator slots added to in this micro-step
  apply_pos,        \* per replica: where it is in the running _apply_gradients
  schedule,         \* a decay schedule object: its class and its fields
  evaluations,      \* the <<step, value>> pairs the schedule has returned
  checkpoint,       \* the checkpoint given to Trainer.__init__
  devices,          \* the devices argument, then the local of that name
  logical_devices,  \* how many GPU and CPU logical devices the host has
  self              \* the attributes Trainer.__init__ has assigned

vars == <<pc, result, max_step, accum_steps, report_steps, save_steps,
          evaluator, eval_steps, dataset, iterations, iterations0, gradients,
          i, num_words, accum_num_words, last_step, step, calls,
          replica_pos, apply_pos, schedule, evaluations,
          checkpoint, devices, logical_devices, self>>

\* State of the replicated execution (lines 93-106), idle on a single device.
replicated == <<replica_pos, apply_pos>>

\* State of opennmt/utils/decay.py, untouched by the training loop.
decay == <<schedule, evaluations>>

\* State of Trainer.__init__ (lines 15-33), settled before __call__ runs.
construction == <<checkpoint, devices, logical_devices, self>>

config == <<max_step, accum_steps, report_steps, save_steps, evaluator,
            eval_steps, dataset, iterations0>>

\* ------------------------------------------------------------- the inputs
Params == 1..NumParams

\* What model.compute_gradients returns for batch j of dataset kind v: one
\* gradient per variable.  Kind 1 repeats the same gradient g on every batch,
\* kind 2 gives every batch its own.
StepGradients(v, j) ==
  [p \in Params |-> IF v = 1 THEN p ELSE j * p + (p - 1)]

\* tf.reduce_sum of the "length" entries of batch j: kind 1 has both lengths,
\* kind 2 has a source length only on odd batches and both on even ones.
BatchWords(v, j) ==
  IF v = 1 THEN [source |-> 2, target |-> 3]
  ELSE IF j % 2 = 1 THEN [source |-> j]
  ELSE [source |-> j, target |-> 1]

Batch(v, j) == [step_gradients |-> StepGradients(v, j), num_words |-> BatchWords(v, j)]

Datasets ==
  { [j \in 1..n |-> Batch(v, j)] : n \in 0..MaxBatches, v \in 1..2 }

\* ------------------------------------------------------- pure helpers
Min(a, b) == IF a <= b THEN a ELSE b

zeros_like(xs) == [p \in DOMAIN xs |-> 0]

\* A variant of accumulate that overwrites the slot (assign for assign_add).
accumulate_assign(grads, step_gradients) ==
  [p \in DOMAIN grads |->
     IF p <= Min(Len(grads), Len(step_gradients))
       THEN step_gradients[p]
       ELSE grads[p]]

\* Lines 77-78: for gradient, step_gradient in zip(gradients, step_gradients):
\*   gradient.assign_add(step_gradient).  zip stops at the shorter sequence.
accumulate(grads, step_gradients) ==
  [p \in DOMAIN grads |->
     IF p <= Min(Len(grads), Len(step_gradients))
       THEN grads[p] + step_gradients[p]
       ELSE grads[p]]

\* Variants of apply_now: the index used for the micro-step number, and the
\* first micro-step left out.
apply_now_off_by_one(idx, accum) == idx = 0 \/ idx % accum = 0
apply_now_no_first(idx, accum) == (idx + 1) % accum = 0

\* Line 114: the micro-steps on which _step() runs.
apply_now(idx, accum) == idx = 0 \/ (idx + 1) % accum = 0

\* Lines 117-118: accum_num_words[key] += value, on a defaultdict(int).
add_words(acc, words) ==
  [k \in DOMAIN acc \cup DOMAIN words |->
     (IF k \in DOMAIN acc THEN acc[k] ELSE 0)
     + (IF k \in DOMAIN words THEN words[k] ELSE 0)]

\* A variant of reset_words that leaves the totals as they are.
reset_words_kept(acc) == acc

\* Lines 144-146: every key of accum_num_words is set to 0.
reset_words(acc) == [k \in DOMAIN acc |-> 0]

\* function_on_next: the loop ends when the dataset has no next batch.
exhausted(ds, idx) == idx + 1 >= Len(ds)

Call(op, s, arg, line) == [op |-> op, step |-> s, arg |-> arg, line |-> line]

\* ------------------------------------------------- Trainer.__init__
\* A logical device of the host, as its type and index.
DeviceName(type, k) == <<type, k>>

\* The optimizer object a checkpoint may carry (checkpoint.optimizer is it,
\* or None).
Optimizer == 1

\* The device lists a caller passes: some GPUs, or no device.  None and the
\* empty list are both falsy at line 24 and are told apart nowhere, so the
\* empty list stands for both.
DeviceArgs == { [k \in 1..n |-> DeviceName("GPU", k - 1)] : n \in 0..NumReplicas }

\* A Trainer object before line 29 has run: no attribute is assigned yet.
NoAttributes == <<>>

\* Line 24, `not devices`.
not_devices(devs) == Len(devs) = 0

\* Lines 25-27: the calls of tf.config.experimental.list_logical_devices.
list_logical_devices_calls(host) ==
  IF host.GPU > 0 THEN << Call("list_logical_devices", None, "GPU", 25) >>
  ELSE << Call("list_logical_devices", None, "GPU", 25),
          Call("list_logical_devices", None, "CPU", 27) >>

\* Lines 25-28: the first GPU if there is one, else the first CPU.
first_logical_device(host) ==
  IF host.GPU > 0 THEN << DeviceName("GPU", 0) >> ELSE << DeviceName("CPU", 0) >>

\* What Trainer.__init__ leaves behind for a checkpoint with an optimizer:
\* the strategy spans the devices resolved at lines 24-28.
ConstructedOn(devs, host) ==
  /\ checkpoint = [optimizer |-> Optimizer, model |-> "model", model_dir |-> "model_dir"]
  /\ devices = devs
  /\ logical_devices = host
  /\ self = [_checkpoint |-> checkpoint, _model |-> "model", _optimizer |-> Optimizer,
             _strategy |-> devs, _summary_writer |-> "model_dir"]

\* Trainer(checkpoint) on a host with one CPU: a strategy over one device,
\* the state a single-device run of __call__ starts from.
Constructed ==
  ConstructedOn(<< DeviceName("CPU", 0) >>, [GPU |-> 0, CPU |-> 1])

\* Everything Trainer.__call__ works on, untouched by the constructor.
call_state == <<config, replicated, decay, iterations, gradients, i, num_words,
                accum_num_words, last_step, step>>

InitTrainer ==
  /\ pc = "init"
  /\ result = "running"
  /\ checkpoint \in [optimizer : {None, Optimizer}, model : {"model"},
                     model_dir : {"model_dir"}]
  /\ devices \in DeviceArgs
  /\ logical_devices \in [GPU : 0..NumReplicas, CPU : 1..NumReplicas]
  /\ self = NoAttributes
  /\ calls = <<>>
  /\ max_step = None
  /\ accum_steps = 1
  /\ report_steps = 1
  /\ save_steps = None
  /\ evaluator = FALSE
  /\ eval_steps = None
  /\ dataset = <<>>
  /\ iterations0 = 0
  /\ iterations = 0
  /\ gradients = <<>>
  /\ i = -1
  /\ num_words = <<>>
  /\ accum_num_words = <<>>
  /\ last_step = 0
  /\ step = Unbound
  /\ replica_pos = <<>>
  /\ apply_pos = <<>>
  /\ schedule = <<>>
  /\ evaluations = {}

\* A variant of optimizer_check that tests the optimizer only after the
\* devices have been resolved.
optimizer_check_after_devices ==
  /\ pc = "init"
  /\ IF not_devices(devices)
       THEN /\ calls' = calls \o list_logical_devices_calls(logical_devices)
            /\ devices' = first_logical_device(logical_devices)
       ELSE UNCHANGED <<calls, devices>>
  /\ IF checkpoint.optimizer = None
       THEN pc' = "raised" /\ result' = "ValueError"
       ELSE pc' = "assign" /\ UNCHANGED result
  /\ UNCHANGED <<checkpoint, logical_devices, self, call_state>>

\* Lines 22-23: raise ValueError("No optimizer is defined") when the
\* checkpoint has no optimizer.
optimizer_check ==
  /\ pc = "init"
  /\ IF checkpoint.optimizer = None
       THEN pc' = "raised" /\ result' = "ValueError"
       ELSE pc' = "devices" /\ UNCHANGED result
  /\ UNCHANGED <<construction, calls, call_state>>

\* Lines 24-28: without a devices argument, take the first logical GPU, or
\* the first logical CPU when the host has no GPU.
resolve_devices ==
  /\ pc = "devices"
  /\ IF not_devices(devices)
       THEN /\ calls' = calls \o list_logical_devices_calls(logical_devices)
            /\ devices' = first_logical_device(logical_devices)
       ELSE UNCHANGED <<calls, devices>>
  /\ pc' = "assign"
  /\ UNCHANGED <<checkpoint, logical_devices, self, result, call_state>>

\* Lines 29-31: self._checkpoint, self._model, self._optimizer.
assign_attributes ==
  /\ pc = "assign"
  /\ self' = [_checkpoint |-> checkpoint, _model |-> checkpoint.model,
              _optimizer |-> checkpoint.optimizer]
  /\ pc' = "strategy"
  /\ UNCHANGED <<checkpoint, devices, logical_devices, calls, result, call_state>>

\* Line 32: self._strategy = tf.distribute.MirroredStrategy(devices=devices).
build_strategy ==
  /\ pc = "strategy"
  /\ calls' = Append(calls, Call("MirroredStrategy", None, devices, 32))
  /\ self' = [_checkpoint |-> self._checkpoint, _model |-> self._model,
              _optimizer |-> self._optimizer, _strategy |-> devices]
  /\ pc' = "writer"
  /\ UNCHANGED <<checkpoint, devices, logical_devices, result, call_state>>

\* Line 33: self._summary_writer = tf.summary.create_file_writer(model_dir).
create_writer ==
  /\ pc = "writer"
  /\ calls' = Append(calls, Call("create_file_writer", None, checkpoint.model_dir, 33))
  /\ self' = [_checkpoint |-> self._checkpoint, _model |-> self._model,
              _optimizer |-> self._optimizer, _strategy |-> self._strategy,
              _summary_writer |-> checkpoint.model_dir]
  /\ pc' = "constructed"
  /\ UNCHANGED <<checkpoint, devices, logical_devices, result, call_state>>

NextTrainer ==
  optimizer_check \/ resolve_devices \/ assign_attributes \/ build_strategy \/ create_writer

SpecTrainer == InitTrainer /\ [][NextTrainer]_vars

\* ------------------------------------------------------------------ Init
Init ==
  /\ pc = "start"
  /\ result = "running"
  /\ max_step \in {None} \cup 1..MaxStepLimit
  /\ accum_steps \in 1..MaxAccum
  /\ report_steps \in 1..MaxCadence
  /\ save_steps \in {None} \cup 1..MaxCadence
  /\ evaluator \in BOOLEAN
  /\ eval_steps \in {None} \cup 1..MaxCadence
  /\ dataset \in Datasets
  /\ iterations0 \in 0..MaxIterations0
  /\ iterations = iterations0
  /\ gradients = <<>>
  /\ i = -1
  /\ num_words = <<>>
  /\ accum_num_words = <<>>
  /\ last_step = 0
  /\ step = Unbound
  /\ calls = <<>>
  /\ replica_pos = <<>>
  /\ apply_pos = <<>>
  /\ schedule = <<>>
  /\ evaluations = {}
  /\ Constructed

\* --------------------------------------------------------------- actions
\* A variant of already_reached that lets a run at exactly max_step go on.
already_reached_strict(its, limit) == limit # None /\ its > limit

\* Line 55: max_step is not None and iterations >= max_step.
already_reached(its, limit) == limit # None /\ its >= limit

\* Lines 55-66: the early return, else the accumulator is created.
Start ==
  /\ pc = "start"
  /\ IF already_reached(iterations, max_step)
       THEN /\ calls' = Append(calls, Call("warning", max_step, <<>>, 56))
            /\ result' = "returned"
            /\ pc' = "done"
            /\ UNCHANGED gradients
       ELSE /\ gradients' = [p \in Params |-> 0]
            /\ pc' = "forward"
            /\ UNCHANGED <<calls, result>>
  /\ UNCHANGED <<config, replicated, decay, construction, iterations, i, num_words, accum_num_words,
                 last_step, step>>

\* Lines 113, 91-101 and 68-84: draw the next batch and accumulate its
\* gradients, or leave the loop when the dataset is exhausted.
Forward ==
  /\ pc = "forward"
  /\ IF exhausted(dataset, i)
       THEN /\ pc' = "final"
            /\ UNCHANGED <<gradients, i, num_words, calls>>
       ELSE LET batch == dataset[i + 2] IN
            /\ i' = i + 1
            /\ calls' = Append(calls,
                 Call("compute_gradients", iterations, batch.step_gradients, 76))
            /\ gradients' = accumulate(gradients, batch.step_gradients)
            /\ num_words' = batch.num_words
            /\ pc' = "step"
  /\ UNCHANGED <<config, replicated, decay, construction, result, iterations, accum_num_words, last_step, step>>

\* Lines 114-115, 103-106 and 86-89: apply and reset, on the applying
\* micro-steps only.
Step ==
  /\ pc = "step"
  /\ IF apply_now(i, accum_steps)
       THEN /\ calls' = Append(calls,
                 Call("apply_gradients", iterations, gradients, 87))
            /\ iterations' = iterations + 1
            /\ gradients' = zeros_like(gradients)
       ELSE UNCHANGED <<calls, iterations, gradients>>
  /\ pc' = "post"
  /\ UNCHANGED <<config, replicated, decay, construction, result, i, num_words, accum_num_words, last_step, step>>

\* A variant of periodic_calls that saves and evaluates before it reports.
periodic_calls_report_last(s, words) ==
  (IF save_steps # None /\ s % save_steps = 0
     THEN <<Call("save", s, <<>>, 131)>> ELSE <<>>)
  \o (IF evaluator /\ eval_steps # None /\ s % eval_steps = 0
     THEN <<Call("evaluator", s, <<>>, 133)>> ELSE <<>>)
  \o (IF s % report_steps = 0
     THEN <<Call("report", s, words, 124)>> ELSE <<>>)

\* Lines 123-133: the periodic calls due at global step s, in source order.
periodic_calls(s, words) ==
  (IF s % report_steps = 0
     THEN <<Call("report", s, words, 124)>> ELSE <<>>)
  \o (IF save_steps # None /\ s % save_steps = 0
     THEN <<Call("save", s, <<>>, 131)>> ELSE <<>>)
  \o (IF evaluator /\ eval_steps # None /\ s % eval_steps = 0
     THEN <<Call("evaluator", s, <<>>, 133)>> ELSE <<>>)

\* A variant of same_step that never skips.
same_step_never(s, last) == FALSE

\* Line 120: `continue` while the counter has not moved.
same_step(s, last) == s = last

\* A variant of reached_max that stops one step late.
reached_max_late(s, limit) == s > limit /\ limit # None

\* Line 134: if step == max_step: break (never equal when max_step is None).
reached_max(s, limit) == s = limit

\* A variant of Post that tests `step == last_step` before it adds the word
\* counts, so that a skipped micro-step's words are dropped.
Post_skip_before_words ==
  /\ pc = "post"
  /\ LET s == iterations
     IN /\ step' = s
        /\ IF same_step(s, last_step)
             THEN /\ pc' = "forward"
                  /\ UNCHANGED <<accum_num_words, last_step, calls>>
             ELSE LET words == add_words(accum_num_words, num_words) IN
                  /\ last_step' = s
                  /\ calls' = calls \o periodic_calls(s, words)
                  /\ accum_num_words' =
                       IF s % report_steps = 0 THEN reset_words(words) ELSE words
                  /\ pc' = IF reached_max(s, max_step) THEN "final" ELSE "forward"
  /\ UNCHANGED <<config, replicated, decay, construction, result, iterations, gradients, i, num_words>>

\* Lines 117-135: the rest of the loop body.
Post ==
  /\ pc = "post"
  /\ LET words == add_words(accum_num_words, num_words)
         s == iterations
     IN /\ step' = s
        /\ IF same_step(s, last_step)
             THEN /\ accum_num_words' = words
                  /\ pc' = "forward"
                  /\ UNCHANGED <<last_step, calls>>
             ELSE /\ last_step' = s
                  /\ calls' = calls \o periodic_calls(s, words)
                  /\ accum_num_words' =
                       IF s % report_steps = 0 THEN reset_words(words) ELSE words
                  /\ pc' = IF reached_max(s, max_step) THEN "final" ELSE "forward"
  /\ UNCHANGED <<config, replicated, decay, construction, result, iterations, gradients, i, num_words>>

\* A variant of FinalSave that first applies the gradients still pending in
\* the accumulator, and saves under the counter that results.
FinalSave_flush_pending ==
  /\ pc = "final"
  /\ IF step = Unbound
       THEN /\ result' = "NameError"
            /\ UNCHANGED <<calls, iterations, gradients>>
       ELSE /\ result' = "returned"
            /\ IF \E p \in DOMAIN gradients : gradients[p] # 0
                 THEN /\ calls' = calls \o
                           << Call("apply_gradients", iterations, gradients, 87),
                              Call("save", iterations + 1, <<>>, 137) >>
                      /\ iterations' = iterations + 1
                      /\ gradients' = zeros_like(gradients)
                 ELSE /\ calls' = Append(calls, Call("save", step, <<>>, 137))
                      /\ UNCHANGED <<iterations, gradients>>
  /\ pc' = "done"
  /\ UNCHANGED <<config, replicated, decay, construction, i, num_words,
                 accum_num_words, last_step, step>>

\* Line 137: self._checkpoint.save(step); `step` is a local of the loop body.
FinalSave ==
  /\ pc = "final"
  /\ IF step = Unbound
       THEN /\ result' = "NameError"
            /\ UNCHANGED calls
       ELSE /\ result' = "returned"
            /\ calls' = Append(calls, Call("save", step, <<>>, 137))
  /\ pc' = "done"
  /\ UNCHANGED <<config, replicated, decay, construction, iterations, gradients, i, num_words,
                 accum_num_words, last_step, step>>

Next == Start \/ Forward \/ Step \/ Post \/ FinalSave

Spec == Init /\ [][Next]_vars

\* ------------------------------------------ a model that breaks its contract
\* Step-gradient sequences of any length 0..NumParams+1: what the accumulation
\* loop at lines 77-78 does when compute_gradients does not return one
\* gradient per variable.
GradientSeqs ==
  UNION { [1..n -> 1..2] : n \in 0..(NumParams + 1) }

InitMismatch ==
  /\ pc = "start"
  /\ result = "running"
  /\ max_step = None
  /\ accum_steps \in 1..2
  /\ report_steps = 1
  /\ save_steps = None
  /\ evaluator = FALSE
  /\ eval_steps = None
  /\ dataset \in { [j \in 1..n |-> [step_gradients |-> g, num_words |-> BatchWords(1, j)]] :
                      n \in 1..2, g \in GradientSeqs }
  /\ iterations0 = 0
  /\ iterations = iterations0
  /\ gradients = <<>>
  /\ i = -1
  /\ num_words = <<>>
  /\ accum_num_words = <<>>
  /\ last_step = 0
  /\ step = Unbound
  /\ calls = <<>>
  /\ replica_pos = <<>>
  /\ apply_pos = <<>>
  /\ schedule = <<>>
  /\ evaluations = {}
  /\ Constructed

SpecMismatch == InitMismatch /\ [][Next]_vars

\* ------------------------------------------------- several replicas
\* Lines 91-106 under a MirroredStrategy of NumReplicas devices: every replica
\* runs _accumulate_gradients on its own shard of the batch and adds into the
\* shared accumulator, slot after slot, and on an applying micro-step every
\* replica runs _apply_gradients; the replicas interleave freely.
Replicas == 1..NumReplicas

\* Trainer(checkpoint, devices=[GPU 0, ...]): one replica per device.
ReplicaDevices == [r \in Replicas |-> DeviceName("GPU", r - 1)]

\* Line 61: the distributed dataset yields one batch per replica at a time.
DistributedDatasets ==
  { [j \in 1..n |-> [r \in Replicas |-> Batch(v, (j - 1) * NumReplicas + r)]] :
      n \in 0..2, v \in 1..2 }

\* Where a replica is in _apply_gradients: before line 87, or after it with
\* so many slots zeroed; NumParams when it has finished or is not running.
BeforeApply == -1

InitReplicas ==
  /\ pc = "start"
  /\ result = "running"
  /\ max_step \in {None, NumReplicas}
  /\ accum_steps \in 2..3
  /\ report_steps = 1
  /\ save_steps = None
  /\ evaluator = FALSE
  /\ eval_steps = None
  /\ dataset \in DistributedDatasets
  /\ iterations0 = 0
  /\ iterations = iterations0
  /\ gradients = <<>>
  /\ i = -1
  /\ num_words = <<>>
  /\ accum_num_words = <<>>
  /\ last_step = 0
  /\ step = Unbound
  /\ calls = <<>>
  /\ replica_pos = [r \in Replicas |-> NumParams]
  /\ apply_pos = [r \in Replicas |-> NumParams]
  /\ schedule = <<>>
  /\ evaluations = {}
  /\ ConstructedOn(ReplicaDevices, [GPU |-> NumReplicas, CPU |-> 1])

\* Line 94: next_fn() draws the per-replica batches and the replicas start,
\* or the loop ends when the dataset is exhausted.
Draw ==
  /\ pc = "forward"
  /\ IF exhausted(dataset, i)
       THEN /\ pc' = "final"
            /\ UNCHANGED <<i, replica_pos>>
       ELSE /\ i' = i + 1
            /\ replica_pos' = [r \in Replicas |-> 0]
            /\ pc' = "accumulate"
  /\ UNCHANGED <<config, decay, construction, result, iterations, gradients, num_words,
                 accum_num_words, last_step, step, calls, apply_pos>>

\* Lines 76-78 on replica r: compute_gradients before the first slot, then one
\* assign_add into the next accumulator slot.
ReplicaAdd(r) ==
  /\ replica_pos[r] < NumParams
  /\ LET g == dataset[i + 1][r].step_gradients
         p == replica_pos[r] + 1
     IN /\ gradients' =
             [gradients EXCEPT ![p] = accumulate(gradients, g)[p]]
        /\ replica_pos' = [replica_pos EXCEPT ![r] = p]
        /\ calls' = IF p = 1
                      THEN Append(calls, Call("compute_gradients", iterations, g, 76))
                      ELSE calls
  /\ UNCHANGED <<config, decay, construction, pc, result, iterations, i, num_words,
                 accum_num_words, last_step, step, apply_pos>>

\* A variant of replicas_finished that waits for one replica only.
replicas_finished_any(pos) == \E r \in Replicas : pos[r] = NumParams

\* Lines 95 and 106: experimental_run_v2 returns when every replica has run
\* its function to the end.
replicas_finished(pos) == \A r \in Replicas : pos[r] = NumParams

\* Lines 99-100: the SUM reduction of the per-replica word counts.
reduce_sum(ds, idx) ==
  LET RECURSIVE upto(_)
      upto(r) == IF r = 0 THEN <<>>
                 ELSE add_words(upto(r - 1), ds[idx + 1][r].num_words)
  IN upto(NumReplicas)

\* Lines 95-101 and 113: the replicas are joined, the word counts reduced and
\* the loop body entered.
Reduce ==
  /\ pc = "accumulate"
  /\ replicas_finished(replica_pos)
  /\ num_words' = reduce_sum(dataset, i)
  /\ pc' = "step"
  /\ UNCHANGED <<config, decay, construction, result, iterations, gradients, i, accum_num_words,
                 last_step, step, calls, replicated>>

\* Lines 114-115 and 106: on an applying micro-step _step() starts
\* _apply_gradients on every replica.
ApplyBegin ==
  /\ pc = "step"
  /\ IF apply_now(i, accum_steps)
       THEN /\ apply_pos' = [r \in Replicas |-> BeforeApply]
            /\ pc' = "applying"
       ELSE /\ pc' = "post"
            /\ UNCHANGED apply_pos
  /\ UNCHANGED <<config, decay, construction, result, iterations, gradients, i, num_words,
                 accum_num_words, last_step, step, calls, replica_pos>>

\* Line 87 on replica r: the optimizer is given the accumulator as it is now
\* and advances its counter, as on every call of apply_gradients.
ReplicaApply(r) ==
  /\ pc = "applying"
  /\ apply_pos[r] = BeforeApply
  /\ calls' = Append(calls, Call("apply_gradients", iterations, gradients, 87))
  /\ iterations' = iterations + 1
  /\ apply_pos' = [apply_pos EXCEPT ![r] = 0]
  /\ UNCHANGED <<config, decay, construction, pc, result, gradients, i, num_words,
                 accum_num_words, last_step, step, replica_pos>>

\* Lines 88-89 on replica r: one gradient.assign(tf.zeros_like(gradient)).
ZeroSlot(r) ==
  /\ pc = "applying"
  /\ apply_pos[r] >= 0 /\ apply_pos[r] < NumParams
  /\ gradients' = [gradients EXCEPT ![apply_pos[r] + 1] = 0]
  /\ apply_pos' = [apply_pos EXCEPT ![r] = apply_pos[r] + 1]
  /\ UNCHANGED <<config, decay, construction, pc, result, iterations, i, num_words,
                 accum_num_words, last_step, step, calls, replica_pos>>

\* Line 115: _step() returns when every replica has run _apply_gradients.
ApplyEnd ==
  /\ pc = "applying"
  /\ replicas_finished(apply_pos)
  /\ pc' = "post"
  /\ UNCHANGED <<config, decay, construction, result, iterations, gradients, i, num_words,
                 accum_num_words, last_step, step, calls, replicated>>

NextReplicas ==
  \/ Start
  \/ Draw
  \/ \E r \in Replicas : ReplicaAdd(r)
  \/ Reduce
  \/ ApplyBegin
  \/ \E r \in Replicas : ReplicaApply(r)
  \/ \E r \in Replicas : ZeroSlot(r)
  \/ ApplyEnd
  \/ Post
  \/ FinalSave

SpecReplicas == InitReplicas /\ [][NextReplicas]_vars

\* ------------------------------------------------- decay schedules
\* opennmt/utils/decay.py.  The schedules compute in float32.  A value is
\* modelled as a rational, a pair <<numerator, denominator>> with a positive
\* denominator, and a schedule is evaluated only at the arguments where every
\* float32 operation of its __call__ is exact, so that the rational is the
\* float32 the code returns: quotients with a power of two as denominator,
\* square roots of powers of 4, cosines of whole multiples of pi.
Rat(x) == <<x, 1>>

\* Below 2^24 every integer is a float32.
Float32Exact == 16777216

\* tf.cast(step, tf.float32) of an integer step below 2^25: exact up to 2^24,
\* beyond it the nearest even integer, ties to the even mantissa.
cast_float32(t) ==
  IF t <= Float32Exact \/ t % 2 = 0 THEN t
  ELSE IF (t - 1) % 4 = 0 THEN t - 1 ELSE t + 1
RatAdd(a, b) == <<a[1] * b[2] + b[1] * a[2], a[2] * b[2]>>
RatSub(a, b) == <<a[1] * b[2] - b[1] * a[2], a[2] * b[2]>>
RatMul(a, b) == <<a[1] * b[1], a[2] * b[2]>>
\* a / b for b > 0
RatDiv(a, b) == <<a[1] * b[2], a[2] * b[1]>>
RatEq(a, b) == a[1] * b[2] = b[1] * a[2]
RatLe(a, b) == a[1] * b[2] <= b[1] * a[2]
RatLt(a, b) == a[1] * b[2] < b[1] * a[2]
\* tf.minimum
RatMin(a, b) == IF RatLe(a, b) THEN a ELSE b
IsInteger(a) == a[1] % a[2] = 0

RECURSIVE IsDyadic(_)
\* The quotient a[1] / a[2] has a power of two as its reduced denominator:
\* the float32 division is exact.
IsDyadic(a) ==
  \/ a[1] % a[2] = 0
  \/ a[2] % 2 = 0 /\ IsDyadic(<<a[1], a[2] \div 2>>)

RECURSIVE IntPow(_, _)
IntPow(b, k) == IF k = 0 THEN 1 ELSE b * IntPow(b, k - 1)

RECURSIVE IsPow4(_)
IsPow4(x) == x = 1 \/ (x > 1 /\ x % 4 = 0 /\ IsPow4(x \div 4))

RECURSIVE Pow4Root(_)
\* The square root of a power of 4.
Pow4Root(x) == IF x <= 1 THEN 1 ELSE 2 * Pow4Root(x \div 4)

\* tf.rsqrt(x), and tf.pow(x, -0.5), of a power of 4.
rsqrt(x) == <<1, Pow4Root(x)>>

\* tf.pow(x, -1.5) of a power of 4.
pow_minus_three_halves(x) == <<1, IntPow(Pow4Root(x), 3)>>

\* tf.pow(b, x) for an integer b > 0 and an integral exponent x.
RatPow(b, x) ==
  LET k == x[1] \div x[2]
  IN IF k >= 0 THEN <<IntPow(b, k), 1>> ELSE <<1, IntPow(b, 0 - k)>>

\* tf.cos(np.pi * step / max_step) for a step that is a multiple of max_step:
\* the float32 angle is within 1e-6 of a whole multiple of pi, its cosine
\* within 1e-12 of 1 or -1, and the float32 cosine is that 1 or -1.
CosPi(x) == IF (x[1] \div x[2]) % 2 = 0 THEN <<1, 1>> ELSE <<-1, 1>>

CosPiExact(x) == x[1] % x[2] = 0

\* Lines 22-26, NoamDecay.__call__, with step = cast(step + 1):
\* scale * model_dim^-0.5 * min(step^-0.5, step * warmup_steps^-1.5).
NoamDecay(h, t) ==
  LET fstep == cast_float32(t + 1)
  IN RatMul(RatMul(Rat(h.scale), rsqrt(h.model_dim)),
            RatMin(rsqrt(fstep),
                   RatMul(Rat(fstep), pow_minus_three_halves(h.warmup_steps))))

\* A variant of RsqrtDecay that takes the smaller of step and warmup_steps
\* (tf.minimum for tf.maximum).
RsqrtDecay_minimum(h, t) ==
  LET fstep == cast_float32(t)
  IN RatMul(Rat(h.scale),
            rsqrt(IF fstep <= h.warmup_steps THEN fstep ELSE h.warmup_steps))

\* Lines 42-44, RsqrtDecay.__call__: scale * rsqrt(max(step, warmup_steps)).
RsqrtDecay(h, t) ==
  LET fstep == cast_float32(t)
  IN RatMul(Rat(h.scale),
            rsqrt(IF fstep >= h.warmup_steps THEN fstep ELSE h.warmup_steps))

\* A variant of CosineAnnealing whose warmup lasts through step = warmup_steps
\* (tf.less_equal for tf.less).
CosineAnnealing_less_equal(h, t) ==
  LET fstep == cast_float32(t)
      annealing ==
        RatAdd(Rat(h.eta_min),
               RatMul(RatMul(<<1, 2>>, Rat(h.eta_max - h.eta_min)),
                      RatAdd(Rat(1), CosPi(<<fstep, h.max_step>>))))
      linear == RatDiv(Rat(h.eta_max * fstep), Rat(h.warmup_steps))
  IN IF h.warmup_steps = None THEN annealing
     ELSE IF fstep <= h.warmup_steps THEN linear ELSE annealing

\* Lines 65-73, CosineAnnealing.__call__.
CosineAnnealing(h, t) ==
  LET fstep == cast_float32(t)
      annealing ==
        RatAdd(Rat(h.eta_min),
               RatMul(RatMul(<<1, 2>>, Rat(h.eta_max - h.eta_min)),
                      RatAdd(Rat(1), CosPi(<<fstep, h.max_step>>))))
      linear == RatDiv(Rat(h.eta_max * fstep), Rat(h.warmup_steps))
  IN IF h.warmup_steps = None THEN annealing
     ELSE IF fstep < h.warmup_steps THEN linear ELSE annealing

\* A variant of RNMTPlusDecay that decays with base 2 (tf.pow(2, ...)).
RNMTPlusDecay_base_two(h, t) ==
  LET fstep == cast_float32(t)
      n == h.num_replicas
      p == h.warmup_steps
      s == h.start_step
      e == h.end_step
  IN RatMul(Rat(h.scale),
       RatMin(RatMin(RatAdd(Rat(1), RatDiv(Rat(fstep * (n - 1)), Rat(n * p))), Rat(n)),
              RatMul(Rat(n), RatPow(2, RatDiv(Rat(s - n * fstep), Rat(e - s))))))

\* Lines 100-108, RNMTPlusDecay.__call__.
RNMTPlusDecay(h, t) ==
  LET fstep == cast_float32(t)
      n == h.num_replicas
      p == h.warmup_steps
      s == h.start_step
      e == h.end_step
  IN RatMul(Rat(h.scale),
       RatMin(RatMin(RatAdd(Rat(1), RatDiv(Rat(fstep * (n - 1)), Rat(n * p))), Rat(n)),
              RatMul(Rat(n), RatPow(2 * n, RatDiv(Rat(s - n * fstep), Rat(e - s))))))

\* The powers of 4 up to 4^k.
Pow4s(k) == { IntPow(4, j) : j \in 0..k }

\* Lines 10-20, 32-40, 50-63 and 79-98: the constructors' arguments.
Schedules ==
  { [class |-> "NoamDecay", scale |-> sc, model_dim |-> d, warmup_steps |-> w] :
      sc \in 1..2, d \in Pow4s(1), w \in Pow4s(MaxWarmup - 1) }
  \cup
  { [class |-> "RsqrtDecay", scale |-> sc, warmup_steps |-> w] :
      sc \in 1..2, w \in Pow4s(MaxWarmup - 1) }
  \cup
  { [class |-> "CosineAnnealing", eta_max |-> mx, eta_min |-> mn,
     max_step |-> ms, warmup_steps |-> w] :
      mx \in 1..2, mn \in 0..1, ms \in 1..MaxDecayStep,
      w \in {None} \cup 1..MaxWarmup }
  \cup
  { [class |-> "RNMTPlusDecay", scale |-> sc, num_replicas |-> n,
     warmup_steps |-> w, start_step |-> st, end_step |-> st + len] :
      sc \in 1..2, n \in 1..NumReplicas, w \in 1..MaxWarmup,
      st \in 0..2, len \in 2..3 }

DecaySteps == 0..MaxDecayStep

\* Steps 2^24 and 2^24 + 1, which are the same float32.
LargeSteps == Float32Exact..(Float32Exact + 1)

\* The steps RsqrtDecay is called at: the small ones, powers of 4, and the
\* large ones.
RsqrtSteps == DecaySteps \cup Pow4s(MaxDecayStep) \cup LargeSteps

\* The steps NoamDecay is called at: one below a power of 4.
NoamSteps == { x - 1 : x \in Pow4s(MaxDecayStep) }

InitDecay ==
  /\ schedule \in Schedules
  /\ evaluations = {}
  /\ pc = "idle"
  /\ result = "running"
  /\ max_step = None
  /\ accum_steps = 1
  /\ report_steps = 1
  /\ save_steps = None
  /\ evaluator = FALSE
  /\ eval_steps = None
  /\ dataset = <<>>
  /\ iterations0 = 0
  /\ iterations = 0
  /\ gradients = <<>>
  /\ i = -1
  /\ num_words = <<>>
  /\ accum_num_words = <<>>
  /\ last_step = 0
  /\ step = Unbound
  /\ calls = <<>>
  /\ replica_pos = <<>>
  /\ apply_pos = <<>>
  /\ Constructed

trainer == <<pc, result, config, iterations, gradients, i, num_words,
             accum_num_words, last_step, step, calls, replicated,
             construction>>

\* NoamDecay.__call__(t), where step + 1 is a power of 4: reads the fields,
\* assigns none.
NoamCall(t) ==
  /\ schedule.class = "NoamDecay"
  /\ IsPow4(cast_float32(t + 1))
  /\ evaluations' = evaluations \cup {<<t, NoamDecay(schedule, t)>>}
  /\ UNCHANGED <<schedule, trainer>>

\* RsqrtDecay.__call__(t), where max(step, warmup_steps) is a power of 4.
RsqrtCall(t) ==
  /\ schedule.class = "RsqrtDecay"
  /\ IsPow4(IF cast_float32(t) >= schedule.warmup_steps
              THEN cast_float32(t) ELSE schedule.warmup_steps)
  /\ evaluations' = evaluations \cup {<<t, RsqrtDecay(schedule, t)>>}
  /\ UNCHANGED <<schedule, trainer>>

\* CosineAnnealing.__call__(t): on the ramp where the quotient is exact, on
\* the cosine branch where the step is a multiple of max_step.
CosineCall(t) ==
  /\ schedule.class = "CosineAnnealing"
  /\ IF schedule.warmup_steps # None /\ cast_float32(t) < schedule.warmup_steps
       THEN IsDyadic(<<schedule.eta_max * t, schedule.warmup_steps>>)
       ELSE CosPiExact(<<t, schedule.max_step>>)
  /\ evaluations' = evaluations \cup {<<t, CosineAnnealing(schedule, t)>>}
  /\ UNCHANGED <<schedule, trainer>>

\* RNMTPlusDecay.__call__(t), where the exponent is an integer and the
\* quotient and the power are exact.
RNMTPlusCall(t) ==
  /\ schedule.class = "RNMTPlusDecay"
  /\ IsInteger(<<schedule.start_step - schedule.num_replicas * t,
                 schedule.end_step - schedule.start_step>>)
  /\ IsDyadic(<<t * (schedule.num_replicas - 1),
                schedule.num_replicas * schedule.warmup_steps>>)
  /\ \/ schedule.start_step >= schedule.num_replicas * t
     \/ IsDyadic(<<1, 2 * schedule.num_replicas>>)
  /\ evaluations' = evaluations \cup {<<t, RNMTPlusDecay(schedule, t)>>}
  /\ UNCHANGED <<schedule, trainer>>

NextDecay ==
  \/ \E t \in NoamSteps : NoamCall(t)
  \/ \E t \in RsqrtSteps : RsqrtCall(t)
  \/ \E t \in DecaySteps : CosineCall(t) \/ RNMTPlusCall(t)

SpecDecay == InitDecay /\ [][NextDecay]_vars

\* ------------------------------------------------- reading the call log
Idx(op) == {j \in DOMAIN calls : calls[j].op = op}

Applies == Idx("apply_gradients")

Computes == Idx("compute_gradients")

Max(S) == CHOOSE x \in S : \A y \in S : y <= x

\* The micro-step (counted from 1) that log entry j belongs to.
MicroStep(j) == Cardinality({m \in 1..j : calls[m].op = "compute_gradients"})

\* The log index of the application before entry j, 0 when there is none.
PrevApply(j) == Max({0} \cup {m \in Applies : m < j})

\* The micro-steps whose apply-or-not decision (line 114) has been taken.
Decided == IF pc = "step" THEN i ELSE i + 1

\* Number of in-log calls of one kind, for one step, from one call site.
Count(op, s, line) ==
  Cardinality({j \in DOMAIN calls :
                 calls[j].op = op /\ calls[j].step = s /\ calls[j].line = line})

RECURSIVE SumGrads(_, _, _)
\* Sum, for parameter p, of the step gradients logged at entries lo..hi.
SumGrads(lo, hi, p) ==
  IF lo > hi THEN 0
  ELSE (IF calls[hi].op = "compute_gradients" THEN calls[hi].arg[p] ELSE 0)
       + SumGrads(lo, hi - 1, p)

AllZero(xs) == \A p \in DOMAIN xs : xs[p] = 0

\* ------------------------------------------------------------------ C1
\* C1: the accumulated gradients are applied and reset after micro-step k iff
\* k = 1 or k is a multiple of accum_steps; the iteration counter grows by
\* exactly one on each applying micro-step and not at all on the others.
C1_ApplyCadence ==
  /\ \A j \in Computes :
       (j < Len(calls) \/ pc # "step") =>
         ( (j + 1 \in DOMAIN calls /\ calls[j + 1].op = "apply_gradients")
           <=> (MicroStep(j) = 1 \/ MicroStep(j) % accum_steps = 0) )
  /\ \A j \in Applies :
       /\ j > 1 /\ calls[j - 1].op = "compute_gradients"
       /\ calls[j].step = iterations0 + Cardinality({m \in Applies : m < j})
       /\ (j = Len(calls) => AllZero(gradients))
  /\ iterations = iterations0 + Cardinality(Applies)

\* Micro-step 6 with accum_steps = 3 has just applied (after 1 and 3), and
\* micro-steps 2, 4 and 5 only accumulated.
C1_Witness ==
  /\ accum_steps = 3 /\ pc = "post" /\ i = 5
  /\ iterations = iterations0 + 3
  /\ calls[Len(calls)].op = "apply_gradients"

\* ------------------------------------------------------------------ C2
\* C2 as stated: with accum_steps = 3 every advance of the counter comes
\* exactly 3 micro-steps after the previous advance, or after loop start.
C2_Original ==
  accum_steps = 3 =>
    \A j \in Applies :
      MicroStep(j) - (IF PrevApply(j) = 0 THEN 0 ELSE MicroStep(PrevApply(j))) = 3

\* C2 amended: with accum_steps = 3 the counter advances on micro-step 1 and
\* on every multiple of 3, once each: after k >= 1 micro-steps it has advanced
\* 1 + k \div 3 times; the advances are 1, then 2, then always 3 micro-steps
\* apart.
C2_Amended ==
  accum_steps = 3 =>
    /\ iterations - iterations0 = (IF Decided = 0 THEN 0 ELSE 1 + Decided \div 3)
    /\ \A j \in Applies :
         LET k == MicroStep(j)
             before == IF PrevApply(j) = 0 THEN 0 ELSE MicroStep(PrevApply(j))
         IN \/ k = 1 /\ before = 0
            \/ k = 3 /\ before = 1
            \/ k > 3 /\ before = k - 3

C2_Witness ==
  /\ accum_steps = 3 /\ Decided = 6 /\ iterations - iterations0 = 3
  /\ {MicroStep(j) : j \in Applies} = {1, 3, 6}

\* ------------------------------------------------------------------ C3
\* C3: the gradient handed to the optimizer is, per parameter, the sum of the
\* step gradients since the previous application (N equal gradients g are
\* applied as N*g), and every accumulator slot is zero right after the
\* application, before the next micro-step adds to it.
C3_AppliedIsSum ==
  /\ \A j \in Applies :
       LET since == {m \in Computes : PrevApply(j) < m /\ m < j} IN
       /\ DOMAIN calls[j].arg = Params
       /\ \A p \in Params : calls[j].arg[p] = SumGrads(PrevApply(j) + 1, j - 1, p)
       /\ (\A m, n \in since : calls[m].arg = calls[n].arg) =>
            \A m \in since : \A p \in Params :
              calls[j].arg[p] = Cardinality(since) * calls[m].arg[p]
  /\ (pc = "post" /\ calls[Len(calls)].op = "apply_gradients") => AllZero(gradients)
  /\ pc \in {"forward", "step", "post", "final"} =>
       \A p \in Params :
         gradients[p] = SumGrads(PrevApply(Len(calls) + 1) + 1, Len(calls), p)

\* Three micro-steps of the same gradient g were applied as 3*g and the
\* accumulator is zero again.
C3_Witness ==
  /\ pc = "post" /\ AllZero(gradients)
  /\ LET j == Len(calls) IN
     /\ j \in Applies
     /\ Cardinality({m \in Computes : PrevApply(j) < m /\ m < j}) = 3
     /\ \A p \in Params : calls[j].arg[p] = 3 * calls[j - 1].arg[p]

\* ------------------------------------------------------------------ C4
\* C4: the periodic actions follow the global step, not the micro-steps: for
\* every global step s reached in the loop the in-loop save tagged s happens
\* once iff save_steps is set and divides s, the report once iff report_steps
\* divides s, the evaluator call once iff an evaluator and eval_steps are set
\* and eval_steps divides s; nothing is repeated on later micro-steps.
C4_PeriodicOncePerStep ==
  /\ pc \in {"forward", "final"} /\ iterations > iterations0 => last_step = iterations
  /\ \A s \in 0..iterations :
       LET seen == s > iterations0 /\ s <= last_step IN
       /\ Count("save", s, 131) =
            (IF seen /\ save_steps # None /\ s % save_steps = 0 THEN 1 ELSE 0)
       /\ Count("report", s, 124) =
            (IF seen /\ s % report_steps = 0 THEN 1 ELSE 0)
       /\ Count("evaluator", s, 133) =
            (IF seen /\ evaluator /\ eval_steps # None /\ s % eval_steps = 0
               THEN 1 ELSE 0)
  /\ \A j \in DOMAIN calls :
       calls[j].line \in {124, 131, 133} => calls[j].step \in 1..iterations

\* Global step 2 was reached on micro-step 3 of accum_steps = 3; micro-steps
\* 4 and 5 only accumulated and its save, report and evaluation stay single.
C4_Witness ==
  /\ accum_steps = 3 /\ i = 4 /\ pc = "forward" /\ iterations0 = 0
  /\ Count("save", 2, 131) = 1
  /\ Count("report", 2, 124) = 1
  /\ Count("evaluator", 2, 133) = 1


\* ------------------------------------------------------------------ C5
\* How the run ended.
EarlyReturn == already_reached(iterations0, max_step)

Saves == Idx("save")

\* A run from counter 0 over a non-empty dataset with max_step = 1 is over.
MaxStepOneDone ==
  pc = "done" /\ max_step = 1 /\ iterations0 = 0 /\ Len(dataset) > 0

\* C5 as stated: with max_step = 1, from counter 0 and a non-empty dataset,
\* the run makes exactly one optimizer update, stops, and issues exactly one
\* checkpoint save in the whole run, tagged 1, whatever the other settings.
C5_Original ==
  MaxStepOneDone =>
    /\ Cardinality(Applies) = 1 /\ i = 0 /\ result = "returned"
    /\ Cardinality(Saves) = 1
    /\ \A j \in Saves : calls[j].step = 1

\* C5 amended: the run makes exactly one optimizer update, stops, and issues
\* exactly one final save tagged 1; that is the only save of the run unless
\* save_steps = 1, when the periodic save tagged 1 comes before it.
C5_Amended ==
  /\ (max_step = 1 /\ iterations0 = 0) => Cardinality(Applies) <= 1 /\ i <= 0
  /\ MaxStepOneDone =>
       /\ Cardinality(Applies) = 1 /\ i = 0 /\ iterations = 1
       /\ result = "returned"
       /\ Count("save", 1, 137) = 1
       /\ Count("save", 1, 131) = (IF save_steps = 1 THEN 1 ELSE 0)
       /\ Cardinality(Saves) = (IF save_steps = 1 THEN 2 ELSE 1)
       /\ \A j \in Saves : calls[j].step = 1

\* A run that stopped after the first of several batches, with one save.
C5_Witness ==
  /\ MaxStepOneDone /\ Len(dataset) >= 2 /\ accum_steps = 3 /\ save_steps = 2
  /\ Cardinality(Applies) = 1 /\ Cardinality(Saves) = 1

\* ------------------------------------------------------------------ C6
\* The loop was left because the dataset had no next batch.
ExhaustedDone ==
  pc = "done" /\ ~EarlyReturn /\ ~(max_step # None /\ step = max_step)

\* C6: a run whose dataset is exhausted before max_step (or with max_step
\* unset) returns normally after exactly one final save tagged with the last
\* completed global step.
C6_ExhaustionSavesOnce ==
  ExhaustedDone =>
    /\ result = "returned"
    /\ Count("save", iterations, 137) = 1
    /\ Cardinality({j \in Saves : calls[j].line = 137}) = 1

\* ------------------------------------------------------------------ C7
\* C7: if max_step is set and the counter is already >= max_step at the call,
\* no batch is processed, nothing is accumulated or applied, the counter is
\* unchanged and the call returns normally after a warning.
C7_EarlyReturnDoesNothing ==
  (max_step # None /\ iterations0 >= max_step) =>
    /\ pc \in {"start", "done"}
    /\ i = -1 /\ gradients = <<>> /\ num_words = <<>>
    /\ Computes = {} /\ Applies = {}
    /\ iterations = iterations0
    /\ result # "NameError"
    /\ pc = "done" =>
         /\ result = "returned"
         /\ Len(calls) = 1 /\ calls[1].op = "warning"

C7_Witness ==
  /\ pc = "done" /\ max_step # None /\ iterations0 >= max_step
  /\ Len(dataset) > 0 /\ result = "returned"

\* ------------------------------------------------------------------ C8
\* C8: every run that stops has persisted a final checkpoint tagged with the
\* last observed global step, whichever way it stopped.
C8_StoppedAlwaysSaves ==
  pc = "done" =>
    /\ result = "returned"
    /\ Len(calls) > 0
    /\ calls[Len(calls)] = Call("save", iterations, <<>>, 137)

\* ------------------------------------------------------------------ C9
\* The micro-step just run left the counter where the loop last saw it.
MidAccumulation == pc = "post" /\ iterations = last_step

\* C9 as stated: on a micro-step that leaves the counter unchanged the running
\* word counts are left alone and no report, save, evaluation or max_step
\* check happens.
C9_Original ==
  [][MidAccumulation =>
       /\ accum_num_words' = accum_num_words
       /\ calls' = calls
       /\ pc' = "forward"]_vars

\* C9 amended: on such a micro-step the word counts of the batch are still
\* added to the running totals, and no report, save, evaluation or max_step
\* check happens; word counts are added on every micro-step.
C9_Amended ==
  [][/\ MidAccumulation =>
          /\ DOMAIN accum_num_words' = DOMAIN accum_num_words \cup DOMAIN num_words
          /\ \A k \in DOMAIN num_words :
               accum_num_words'[k] =
                 (IF k \in DOMAIN accum_num_words THEN accum_num_words[k] ELSE 0)
                 + num_words[k]
          /\ \A k \in DOMAIN accum_num_words \ DOMAIN num_words :
               accum_num_words'[k] = accum_num_words[k]
          /\ calls' = calls
          /\ last_step' = last_step
          /\ pc' = "forward"
     /\ (pc = "post" /\ iterations # last_step) =>
          \A k \in DOMAIN num_words :
            \/ accum_num_words'[k] =
                 (IF k \in DOMAIN accum_num_words THEN accum_num_words[k] ELSE 0)
                 + num_words[k]
            \/ iterations % report_steps = 0 /\ accum_num_words'[k] = 0]_vars

\* Right after a micro-step that only accumulated: its words are in the totals
\* (no report has fired since global step 1, reached on micro-step 1).
C9_Witness ==
  /\ pc = "forward" /\ i = 1 /\ accum_steps = 3 /\ report_steps = 2
  /\ iterations0 = 0 /\ iterations = last_step
  /\ calls[Len(calls)].op = "compute_gradients"
  /\ accum_num_words["source"] = dataset[1].num_words["source"]
                                   + dataset[2].num_words["source"]

\* ----------------------------------------------------------------- C10
\* C10: accumulating a step-gradient sequence whose length differs from the
\* number of accumulator slots fails with ShapeMismatch and adds into no slot.
C10_MismatchRaises ==
  \A j \in Computes :
    Len(calls[j].arg) # NumParams =>
      /\ result = "ShapeMismatch"
      /\ AllZero(gradients)


\* ----------------------------------------------------------------- C11
\* A replica is between the first and the last addition of a micro-step.
Adding == \E r \in Replicas : replica_pos[r] < NumParams

\* _apply_gradients runs: some replica has not zeroed every slot yet.
Applying == pc = "applying" \/ \E r \in Replicas : apply_pos[r] < NumParams

\* The first call of apply_gradients of each _step().
FirstApplies == {j \in Applies : calls[j - 1].op = "compute_gradients"}

\* C11: with several replicas apply-and-reset never overlaps accumulation: all
\* additions of micro-step k are done before the apply-and-reset after k
\* starts, and every slot is zeroed before any addition of micro-step k+1.
C11_ApplyNeverOverlapsAdd ==
  /\ ~(Adding /\ Applying)
  /\ pc \in {"step", "applying", "post", "final", "done"} => ~Adding
  /\ pc \in {"accumulate", "step"} => replicas_finished(apply_pos)
  /\ \A j \in FirstApplies :
       /\ Cardinality({m \in Computes : PrevApply(j) < m /\ m < j}) % NumReplicas = 0
       /\ \A p \in Params : calls[j].arg[p] = SumGrads(PrevApply(j) + 1, j - 1, p)
  /\ (pc = "accumulate" /\ Computes # {} /\ PrevApply(Len(calls) + 1) # 0
        /\ \A m \in Computes : m < PrevApply(Len(calls) + 1)) =>
       AllZero(gradients)

\* The second micro-step of accum_steps = 2 is being applied: every replica
\* has added all its slots, one replica has zeroed its first slot and
\* another has not called the optimizer yet.
C11_Witness ==
  /\ pc = "applying" /\ i = 1 /\ accum_steps = 2
  /\ NumReplicas >= 2
  /\ \E r, q \in Replicas : apply_pos[r] = 1 /\ apply_pos[q] = BeforeApply
  /\ Cardinality(Computes) = 2 * NumReplicas
  /\ replicas_finished(replica_pos)

\* ----------------------------------------------------------------- C12
\* The evaluations of the schedule in hand, when it is of class c.
Evaluated(c) == IF schedule.class = c THEN evaluations ELSE {}

\* scale * min(a, b, c): below each of the three and equal to one of them.
IsScaledMin(v, scale, a, b, c) ==
  LET sa == RatMul(Rat(scale), a)
      sb == RatMul(Rat(scale), b)
      sc == RatMul(Rat(scale), c)
  IN /\ RatLe(v, sa) /\ RatLe(v, sb) /\ RatLe(v, sc)
     /\ (RatEq(v, sa) \/ RatEq(v, sb) \/ RatEq(v, sc))

\* The three terms of the RNMT+ minimum, with the given base of the decay.
RNMTTerms(h, t, base) ==
  LET n == h.num_replicas
      k == (h.start_step - n * t) \div (h.end_step - h.start_step)
  IN <<<<n * h.warmup_steps + t * (n - 1), n * h.warmup_steps>>,
       <<n, 1>>,
       IF k >= 0 THEN <<n * IntPow(base, k), 1>> ELSE <<n, IntPow(base, 0 - k)>>>>

\* C12 as stated: RNMTPlusDecay returns
\* scale * min(1 + t*(n-1)/(n*p), n, n * 2^((s - n*t)/(e - s))).
C12_Original ==
  \A ev \in Evaluated("RNMTPlusDecay") :
    LET terms == RNMTTerms(schedule, ev[1], 2)
    IN IsScaledMin(ev[2], schedule.scale, terms[1], terms[2], terms[3])

\* C12 amended: RNMTPlusDecay returns
\* scale * min(1 + t*(n-1)/(n*p), n, n * (2*n)^((s - n*t)/(e - s))): the
\* exponential decay has base 2*n.
C12_Amended ==
  \A ev \in Evaluated("RNMTPlusDecay") :
    LET terms == RNMTTerms(schedule, ev[1], 2 * schedule.num_replicas)
    IN IsScaledMin(ev[2], schedule.scale, terms[1], terms[2], terms[3])

\* With two replicas, start_step = 0 and end_step = 2, step 2 lies in the
\* decay branch: 2 * 4^(-2) = 1/8.
C12_Witness ==
  /\ schedule.class = "RNMTPlusDecay"
  /\ schedule.num_replicas = 2 /\ schedule.scale = 1
  /\ schedule.start_step = 0 /\ schedule.end_step = 2
  /\ \E ev \in evaluations : ev[1] = 2 /\ RatEq(ev[2], <<1, 8>>)


\* ----------------------------------------------------------------- C13
\* eta_min + 0.5*(eta_max - eta_min)*(1 + cos(pi*t/max_step)), doubled:
\* 2*v = 2*eta_min + (eta_max - eta_min)*(1 + cos).
IsCosineBranch(v, h, t) ==
  RatEq(RatMul(Rat(2), v),
        RatAdd(Rat(2 * h.eta_min),
               RatMul(Rat(h.eta_max - h.eta_min),
                      RatAdd(Rat(1), CosPi(<<t, h.max_step>>)))))

\* C13: without warmup_steps every step, step 0 included, takes the cosine
\* branch (eta_max at step 0, eta_min at step = max_step); with warmup_steps
\* = w every step < w yields eta_max*step/w and every step >= w, step = w
\* included, takes the cosine branch.
C13_CosineBranches ==
  \A ev \in Evaluated("CosineAnnealing") :
    LET t == ev[1]
        v == ev[2]
        w == schedule.warmup_steps
    IN /\ w = None =>
            /\ IsCosineBranch(v, schedule, t)
            /\ t = 0 => RatEq(v, Rat(schedule.eta_max))
            /\ t = schedule.max_step => RatEq(v, Rat(schedule.eta_min))
       /\ (w # None /\ t < w) => v[1] * w = schedule.eta_max * t * v[2]
       /\ (w # None /\ t >= w) => IsCosineBranch(v, schedule, t)

\* Step = warmup_steps = max_step = 2 was evaluated by the cosine branch
\* (eta_min = 0, where the ramp would give eta_max = 2), and step 1 of the
\* same schedule by the ramp (half of eta_max).
C13_Witness ==
  /\ schedule.class = "CosineAnnealing"
  /\ schedule.warmup_steps = 2 /\ schedule.max_step = 2
  /\ schedule.eta_max = 2 /\ schedule.eta_min = 0
  /\ \E ev \in evaluations : ev[1] = 2 /\ RatEq(ev[2], Rat(0))
  /\ \E ev \in evaluations : ev[1] = 1 /\ RatEq(ev[2], Rat(1))


\* ----------------------------------------------------------------- C14
\* v = scale / sqrt(x), for a positive v.
IsScaledRsqrt(v, scale, x) ==
  v[1] > 0 /\ v[1] * v[1] * x = scale * scale * v[2] * v[2]

\* Every step <= warmup_steps yields the same scale/sqrt(warmup_steps).
RsqrtFlat ==
  /\ \A ev \in Evaluated("RsqrtDecay") :
       ev[1] <= schedule.warmup_steps =>
         IsScaledRsqrt(ev[2], schedule.scale, schedule.warmup_steps)
  /\ \A a, b \in Evaluated("RsqrtDecay") :
       (a[1] <= schedule.warmup_steps /\ b[1] <= schedule.warmup_steps) =>
         RatEq(a[2], b[2])

\* C14 as stated: RsqrtDecay is scale * rsqrt(max(step, warmup_steps)): every
\* step <= warmup_steps yields the same scale/sqrt(warmup_steps), and for
\* steps a < b with a >= warmup_steps the value at b is strictly smaller.
C14_Original ==
  /\ RsqrtFlat
  /\ \A a, b \in Evaluated("RsqrtDecay") :
       (schedule.warmup_steps <= a[1] /\ a[1] < b[1]) => RatLt(b[2], a[2])

\* C14 amended: flat as stated; for steps a < b with a >= warmup_steps the
\* value at b is never larger than at a, strictly smaller for small steps,
\* and equal for steps that are the same float32 (2^24 and 2^24 + 1).
C14_Amended ==
  /\ RsqrtFlat
  /\ \A a, b \in Evaluated("RsqrtDecay") :
       (schedule.warmup_steps <= a[1] /\ a[1] < b[1]) =>
         /\ RatLe(b[2], a[2])
         /\ b[1] <= IntPow(4, MaxDecayStep) => RatLt(b[2], a[2])
         /\ cast_float32(a[1]) = cast_float32(b[1]) => RatEq(a[2], b[2])

\* Steps 0 and 4 of a schedule with warmup_steps = 4 gave the same value,
\* step 16 a smaller one, and steps 2^24 and 2^24 + 1 the same value.
C14_Witness ==
  /\ schedule.class = "RsqrtDecay" /\ schedule.warmup_steps = 4
  /\ \E a, b, c \in evaluations :
       /\ a[1] = 0 /\ b[1] = 4 /\ c[1] = 16
       /\ RatEq(a[2], b[2]) /\ RatLt(c[2], b[2])
  /\ \E a, b \in evaluations :
       /\ a[1] = Float32Exact /\ b[1] = Float32Exact + 1
       /\ RatEq(a[2], b[2])

\* ----------------------------------------------------------------- C16
\* C16: constructing a Trainer from a checkpoint without an optimizer raises
\* the "No optimizer is defined" error at once: no device is listed, no
\* strategy is built, no summary writer is created and no attribute of the
\* Trainer is assigned.
C16_NoOptimizerFailsFirst ==
  /\ checkpoint.optimizer = None =>
       /\ pc \in {"init", "raised"}
       /\ calls = <<>>
       /\ DOMAIN self = {}
       /\ pc = "raised" => result = "ValueError"
  /\ pc = "raised" => checkpoint.optimizer = None

\* The constructor has raised for a caller that passed no devices, on a host
\* with a GPU it would otherwise have listed.
C16_Witness ==
  /\ pc = "raised" /\ result = "ValueError"
  /\ checkpoint.optimizer = None
  /\ not_devices(devices) /\ logical_devices.GPU > 0

\* ----------------------------------------------------------------- C17
Reports == Idx("report")

\* The log index of the report before entry j, 0 when there is none.
PrevReport(j) == Max({0} \cup {m \in Reports : m < j})

\* The word-count keys of the batches lo..hi.
KeysOf(lo, hi) == UNION { DOMAIN dataset[m].num_words : m \in lo..hi }

RECURSIVE SumWords(_, _, _)
\* Sum of the word counts of one key over the batches lo..hi.
SumWords(lo, hi, key) ==
  IF lo > hi THEN 0
  ELSE (IF key \in DOMAIN dataset[hi].num_words
          THEN dataset[hi].num_words[key] ELSE 0)
       + SumWords(lo, hi - 1, key)

\* The micro-steps whose word counts have been added (lines 117-118).
Counted == IF pc \in {"step", "post"} THEN i ELSE i + 1

\* The totals a report used are the sums since the report before it, and
\* the running totals are the sums since the last report.
ReportTotals ==
  /\ \A j \in Reports :
       LET k == MicroStep(j)
           k0 == MicroStep(PrevReport(j))
       IN /\ DOMAIN calls[j].arg = KeysOf(1, k)
          /\ \A key \in DOMAIN calls[j].arg :
               calls[j].arg[key] = SumWords(k0 + 1, k, key)
  /\ DOMAIN accum_num_words = KeysOf(1, Counted)
  /\ \A key \in DOMAIN accum_num_words :
       accum_num_words[key] = SumWords(MicroStep(PrevReport(Len(calls) + 1)) + 1, Counted, key)

Reported == \E j \in DOMAIN calls' : j > Len(calls) /\ calls'[j].op = "report"

\* A step that reports leaves every total at zero; any other step lowers
\* none.
ResetOrGrow ==
  IF Reported
    THEN AllZero(accum_num_words')
    ELSE \A key \in DOMAIN accum_num_words :
           /\ key \in DOMAIN accum_num_words'
           /\ accum_num_words'[key] >= accum_num_words[key]

\* C17: every report resets the running total of every key to zero; the
\* total a report uses for a key is the sum of that key's word counts added
\* since the previous report (or since the loop started); between reports
\* the totals never decrease.
C17_ReportTotalsAndReset == []ReportTotals /\ [][ResetOrGrow]_vars

\* A second report has covered two micro-steps or more, and the totals it
\* left are all zero.
C17_Witness ==
  /\ pc = "forward"
  /\ \E j1, j2 \in Reports :
       /\ j1 < j2 /\ MicroStep(j2) >= MicroStep(j1) + 2
       /\ \E key \in DOMAIN calls[j2].arg : calls[j2].arg[key] > 0
       /\ \A m \in DOMAIN calls : m > j2 => calls[m].op # "compute_gradients"
  /\ DOMAIN accum_num_words # {} /\ AllZero(accum_num_words)

\* ----------------------------------------------------------------- C18
\* max_step is set and the run starts below it.
StartsBelowMax == max_step # None /\ iterations0 < max_step

\* Nothing is drawn, accumulated or applied in this step.
LoopIdle ==
  /\ i' = i /\ gradients' = gradients /\ iterations' = iterations
  /\ \A j \in DOMAIN calls' :
       j > Len(calls) => calls'[j].op \notin {"compute_gradients", "apply_gradients"}

\* C18: if max_step is set and the run starts with the counter below it, the
\* counter never exceeds max_step, and once it equals max_step no batch is
\* drawn, no gradient is accumulated and no optimizer update happens.
C18_NeverPastMaxStep ==
  /\ [](StartsBelowMax =>
          /\ iterations <= max_step
          /\ iterations = max_step => pc \in {"post", "final", "done"})
  /\ [][(StartsBelowMax /\ iterations = max_step) => LoopIdle]_vars

\* A run with accumulation has stopped at max_step with batches left over.
C18_Witness ==
  /\ pc = "done" /\ StartsBelowMax /\ iterations = max_step
  /\ max_step >= 2 /\ accum_steps >= 2
  /\ i + 1 < Len(dataset)

\* ----------------------------------------------------------------- C19
\* The log indices of the calls made for global step s from one call site.
At(op, s, line) ==
  {j \in DOMAIN calls : calls[j].op = op /\ calls[j].step = s /\ calls[j].line = line}

\* How many calls of the site are due at step s.
Due(cadence, s) == IF cadence # None /\ s % cadence = 0 THEN 1 ELSE 0

\* C19: for a step that advanced, the report precedes the periodic save,
\* which precedes the evaluation; the calls due at max_step are all made
\* before the loop stops there, and the final save comes after them.
C19_PeriodicOrder ==
  /\ \A j, k \in DOMAIN calls :
       (calls[j].step = calls[k].step /\ calls[j].line < calls[k].line
        /\ calls[j].line \in {124, 131, 133} /\ calls[k].line \in {124, 131, 133, 137})
         => j < k
  /\ (pc \in {"final", "done"} /\ max_step # None /\ step = max_step) =>
       /\ Cardinality(At("report", step, 124)) = Due(report_steps, step)
       /\ Cardinality(At("save", step, 131)) = Due(save_steps, step)
       /\ Cardinality(At("evaluator", step, 133)) =
            (IF evaluator THEN Due(eval_steps, step) ELSE 0)
  /\ \A j \in At("save", step, 137) : j = Len(calls)

\* The run stopped at max_step and its log ends with the report, the
\* periodic save, the evaluation and the final save of that step.
C19_Witness ==
  /\ pc = "done" /\ max_step # None /\ step = max_step
  /\ Len(calls) >= 4
  /\ LET n == Len(calls) IN
       /\ calls[n - 3] = Call("report", step, calls[n - 3].arg, 124)
       /\ calls[n - 2] = Call("save", step, <<>>, 131)
       /\ calls[n - 1] = Call("evaluator", step, <<>>, 133)
       /\ calls[n] = Call("save", step, <<>>, 137)

\* ----------------------------------------------------------------- C20
\* The dataset ran out on a micro-step that does not apply: it is neither
\* the first nor a multiple of accum_steps.
ExhaustedPending ==
  /\ pc = "done" /\ ~EarlyReturn
  /\ i + 1 = Len(dataset)
  /\ Len(dataset) # 1 /\ Len(dataset) % accum_steps # 0

\* C20: when the dataset is exhausted with accumulated gradients pending,
\* they are never applied: no optimizer update follows the last batch, the
\* counter keeps the value of the last application, and the final save is
\* tagged with that value.
C20_PendingNeverApplied ==
  ExhaustedPending =>
    /\ Max(Applies) < Max(Computes)
    /\ \E p \in DOMAIN gradients : gradients[p] # 0
    /\ \A p \in DOMAIN gradients :
         gradients[p] = SumGrads(Max(Applies) + 1, Len(calls), p)
    /\ iterations = calls[Max(Applies)].step + 1
    /\ iterations = iterations0 + Cardinality(Applies)
    /\ calls[Len(calls)] = Call("save", iterations, <<>>, 137)

\* Five batches with accum_steps = 3: the fourth and fifth stay pending.
C20_Witness ==
  /\ ExhaustedPending
  /\ accum_steps = 3 /\ Len(dataset) = 5 /\ max_step = None
  /\ Cardinality(Applies) = 2

====
